---- MODULE Spec2Model ----
(***************************************************************************)
(* Training orchestration of src/models/train_deit.py: main() writes the   *)
(* header of the metrics table, builds a pytorch_lightning Trainer with    *)
(* two ModelCheckpoint callbacks, runs trainer.fit on the                  *)
(* DeiTTinyForClassification module, reports the elapsed time and then     *)
(* appends one row per epoch to the metrics table.                         *)
(*                                                                         *)
(* The Trainer is used with its defaults except for the arguments given at *)
(* lines 208-215, so the fit loop modelled here is the default one: a      *)
(* sanity check of num_sanity_val_steps validation batches, then per epoch *)
(* the training batches (training_step, optimizer_zero_grad,               *)
(* on_before_backward, backward, optimizer step), the validation loop, the *)
(* module's on_train_epoch_end hook and the checkpoint callbacks.          *)
(***************************************************************************)
EXTENDS Integers, Sequences, FiniteSets, TLC

\* ------------------------------------------------------------------ bounds
MaxEpochs == 5
NumTrainBatches == 2
NumValBatches == 2

\* EPOCHS values tried: below -1, -1 (Lightning: no epoch limit), 0, and 1..MaxEpochs.
EpochChoices == (0 - 2)..MaxEpochs

\* val_map of an epoch, in tenths (0.1, 0.3, 0.5, 0.9).
Vals == {1, 3, 5, 9}

\* The model's parameters and the per-parameter gradient norms a backward
\* pass may leave (line 116 reads p.grad.norm(2) of each).
Params == {1, 2}
NoGrad == 0 - 1
GradOutcomes == {<<0, 0>>, <<3, 0>>, <<0, 4>>, <<3, 4>>}

\* ------------------------------------------------------- program constants
SaveTopKTwo == 1 + 1
SaveTopK == 1
EveryNEpochsTwo == 1 + 1
EveryNEpochs == 1
NumSanityValSteps == 2

RowOpenModeTruncating == "w"
RowOpenMode == "a"

\* The header row, lines 199-201 (the columns the model keeps).
Header == [kind |-> "header",
           columns |-> <<"epoch", "val_map", "grad_norm", "avg_grad_norm">>]

VARIABLES
    pc,               \* position of main() / of the fit loop
    epochs,           \* int(os.getenv("EPOCHS", 10)), the Trainer's max_epochs
    current_epoch,    \* trainer.current_epoch
    batch_idx,        \* training batches of this epoch already consumed
    val_idx,          \* validation batches of this loop already consumed
    global_step,      \* trainer.global_step: optimizer steps taken
    grad,             \* p.grad of each parameter (its norm), NoGrad for None
    grad_norm_values, \* self.grad_norm_values
    callback_metrics, \* trainer.callback_metrics
    best_k_models,    \* checkpoint_callback.best_k_models, {[path, score]}
    best_last_step,   \* checkpoint_callback._last_global_step_saved
    epoch_last_path,  \* checkpoint_callback_epoch.best_model_path
    epoch_last_step,  \* checkpoint_callback_epoch._last_global_step_saved
    ckpt_files,       \* checkpoint files in saved_models/, {[path, epoch]}
    csv_file,         \* lines of logs/metrics_<time>.csv
    row_epoch,        \* loop variable of the row loop (line 229)
    time_reported,    \* times the elapsed training time was reported
    phase_log,        \* history: phases entered, in order
    step_log,         \* history: operations of the current training step
    requests,         \* history: checkpoint saves requested, in order
    finalized,        \* history: callback_metrics when each epoch was finalized
    epoch_norms,      \* history: norms recorded in each epoch's training steps
    train_steps,      \* history: training_step calls
    val_steps         \* history: validation_step calls

vars == <<pc, epochs, current_epoch, batch_idx, val_idx, global_step, grad,
          grad_norm_values, callback_metrics, best_k_models, best_last_step,
          epoch_last_path, epoch_last_step, ckpt_files, csv_file, row_epoch,
          time_reported, phase_log, step_log, requests, finalized,
          epoch_norms, train_steps, val_steps>>

\* --------------------------------------------------------------- helpers
Min(a, b) == IF a < b THEN a ELSE b

RECURSIVE SumSeq(_)
SumSeq(s) == IF s = <<>> THEN 0 ELSE s[1] + SumSeq(Tail(s))

\* x ** 0.5 on the radicands that occur (perfect squares).
Sqrt(n) == CHOOSE r \in 0..n : r * r = n

\* np.mean as the exact fraction <<sum, count>>.
Mean(s) == <<SumSeq(s), Len(s)>>

\* on_before_backward, lines 113-117: the global L2 norm of the gradients
\* present, parameters without a gradient skipped.
TotalNorm(g) ==
    LET sq(p) == IF g[p] = NoGrad THEN 0 ELSE g[p] * g[p]
    IN  Sqrt(sq(1) + sq(2))

\* dict.get(key, default) on callback_metrics.
Get(cm, k, d) == IF k \in DOMAIN cm THEN cm[k] ELSE d

\* self.log(key, value): the value reaches callback_metrics.
Log(cm, k, v) == [x \in (DOMAIN cm) \cup {k} |-> IF x = k THEN v ELSE cm[x]]

NoMetrics == [x \in {} |-> 0]

\* The metric columns of one row, lines 231-245.
MetricsRow(cm) ==
    [val_map       |-> Get(cm, "val_map", 0),
     grad_norm     |-> Get(cm, "grad_norm", 0),
     avg_grad_norm |-> Get(cm, "avg_grad_norm", 0)]

\* open(path, mode): 'w' truncates, 'a' keeps the lines.
Open(file, mode) == IF mode = "w" THEN <<>> ELSE file

Init ==
    /\ pc = "write_header"
    /\ epochs \in EpochChoices
    /\ current_epoch = 0
    /\ batch_idx = 0
    /\ val_idx = 0
    /\ global_step = 0
    /\ grad = [p \in Params |-> NoGrad]
    /\ grad_norm_values = <<>>
    /\ callback_metrics = NoMetrics
    /\ best_k_models = {}
    /\ best_last_step = 0
    /\ epoch_last_path = <<>>
    /\ epoch_last_step = 0
    /\ ckpt_files = {}
    /\ csv_file = <<>>
    /\ row_epoch = 0
    /\ time_reported = 0
    /\ phase_log = <<>>
    /\ step_log = <<>>
    /\ requests = <<>>
    /\ finalized = <<>>
    /\ epoch_norms = <<>>
    /\ train_steps = 0
    /\ val_steps = 0

mainVars == <<csv_file, row_epoch, time_reported>>
ckptVars == <<best_k_models, best_last_step, epoch_last_path, epoch_last_step,
              ckpt_files, requests>>
gradVars == <<grad, grad_norm_values, epoch_norms, step_log>>
loopVars == <<current_epoch, batch_idx, val_idx, global_step>>

\* ------------------------------------------------------------ main, part 1

\* Lines 202-204: the header row, file opened with mode='w'.
WriteHeader ==
    /\ pc = "write_header"
    /\ csv_file' = Append(Open(csv_file, "w"), Header)
    /\ pc' = "create_trainer"
    /\ UNCHANGED <<epochs, callback_metrics, phase_log, finalized, train_steps,
                   val_steps, row_epoch, time_reported>>
    /\ UNCHANGED <<ckptVars, gradVars, loopVars>>

\* Lines 208-215: pl.Trainer(max_epochs=epochs, ...). The Trainer accepts
\* every max_epochs >= -1 (0 included; -1 means no limit) ...
CreateTrainer ==
    /\ pc = "create_trainer"
    /\ epochs >= 0 - 1
    /\ pc' = "fit"
    /\ UNCHANGED <<epochs, callback_metrics, phase_log, finalized, train_steps,
                   val_steps>>
    /\ UNCHANGED <<mainVars, ckptVars, gradVars, loopVars>>

\* ... and raises MisconfigurationException for max_epochs < -1.
TrainerMisconfigured ==
    /\ pc = "create_trainer"
    /\ epochs < 0 - 1
    /\ pc' = "error"
    /\ UNCHANGED <<epochs, callback_metrics, phase_log, finalized, train_steps,
                   val_steps>>
    /\ UNCHANGED <<mainVars, ckptVars, gradVars, loopVars>>

\* ---------------------------------------------------- trainer.fit, line 218

\* The number of validation batches the sanity check runs.
SanityBatches == Min(NumSanityValSteps, NumValBatches)

\* trainer.fit begins with the sanity check (num_sanity_val_steps is left at
\* its default).
FitStart ==
    /\ pc = "fit"
    /\ pc' = "sanity"
    /\ val_idx' = 0
    /\ phase_log' = IF SanityBatches > 0
                    THEN Append(phase_log, [phase |-> "sanity", epoch |-> 0])
                    ELSE phase_log
    /\ UNCHANGED <<epochs, callback_metrics, finalized, train_steps, val_steps,
                   current_epoch, batch_idx, global_step>>
    /\ UNCHANGED <<mainVars, ckptVars, gradVars>>

\* validation_step (lines 73-109) on one batch of the sanity check.
SanityValStep ==
    /\ pc = "sanity"
    /\ val_idx < SanityBatches
    /\ val_idx' = val_idx + 1
    /\ val_steps' = val_steps + 1
    /\ UNCHANGED <<pc, epochs, callback_metrics, phase_log, finalized,
                   train_steps, current_epoch, batch_idx, global_step>>
    /\ UNCHANGED <<mainVars, ckptVars, gradVars>>

\* The sanity check ends: what it logged is dropped (the logger connector's
\* results and metrics are reset), no checkpoint callback has run.
SanityEnd ==
    /\ pc = "sanity"
    /\ val_idx = SanityBatches
    /\ callback_metrics' = NoMetrics
    /\ pc' = "fit_loop"
    /\ val_idx' = 0
    /\ UNCHANGED <<epochs, phase_log, finalized, train_steps, val_steps,
                   current_epoch, batch_idx, global_step>>
    /\ UNCHANGED <<mainVars, ckptVars, gradVars>>

\* The fit loop's stop test: max_epochs reached, -1 never.
FitLoopDoneOffByOne(epoch, max_epochs) == max_epochs # 0 - 1 /\ epoch > max_epochs
FitLoopDone(epoch, max_epochs) == max_epochs # 0 - 1 /\ epoch >= max_epochs

\* A training epoch starts (the run without epoch limit is followed for
\* MaxEpochs epochs).
EpochStart ==
    /\ pc = "fit_loop"
    /\ ~FitLoopDone(current_epoch, epochs)
    /\ current_epoch < MaxEpochs
    /\ pc' = "training_step"
    /\ batch_idx' = 0
    /\ phase_log' = Append(phase_log, [phase |-> "train", epoch |-> current_epoch])
    /\ epoch_norms' = Append(epoch_norms, <<>>)
    /\ UNCHANGED <<epochs, callback_metrics, finalized, train_steps, val_steps,
                   current_epoch, val_idx, global_step, grad, grad_norm_values,
                   step_log>>
    /\ UNCHANGED <<mainVars, ckptVars>>

\* trainer.fit returns.
FitLoopEnd ==
    /\ pc = "fit_loop"
    /\ FitLoopDone(current_epoch, epochs)
    /\ pc' = "report"
    /\ UNCHANGED <<epochs, callback_metrics, phase_log, finalized, train_steps,
                   val_steps>>
    /\ UNCHANGED <<mainVars, ckptVars, gradVars, loopVars>>

\* ------------------------------------------------------ one training batch

\* training_step, lines 52-71: forward pass, loss, the train_* metrics.
TrainingStep ==
    /\ pc = "training_step"
    /\ train_steps' = train_steps + 1
    /\ step_log' = <<"training_step">>
    /\ pc' = "zero_grad"
    /\ UNCHANGED <<epochs, callback_metrics, phase_log, finalized, val_steps,
                   grad, grad_norm_values, epoch_norms>>
    /\ UNCHANGED <<mainVars, ckptVars, loopVars>>

\* optimizer.zero_grad() of the automatic optimization closure: it runs after
\* training_step and before backward, and leaves every p.grad None.
ZeroGrad ==
    /\ pc = "zero_grad"
    /\ grad' = [p \in Params |-> NoGrad]
    /\ step_log' = Append(step_log, "zero_grad")
    /\ pc' = "on_before_backward"
    /\ UNCHANGED <<epochs, callback_metrics, phase_log, finalized, train_steps,
                   val_steps, grad_norm_values, epoch_norms>>
    /\ UNCHANGED <<mainVars, ckptVars, loopVars>>

\* on_before_backward, lines 111-119: Lightning calls the hook before
\* loss.backward(); it appends the norm of the gradients present now.
OnBeforeBackward ==
    /\ pc = "on_before_backward"
    /\ LET total_norm == TotalNorm(grad)
       IN  /\ grad_norm_values' = Append(grad_norm_values, total_norm)
           /\ callback_metrics' = Log(callback_metrics, "grad_norm", total_norm)
           /\ epoch_norms' = [epoch_norms EXCEPT ![Len(epoch_norms)] =
                                  Append(@, total_norm)]
    /\ step_log' = Append(step_log, "record")
    /\ pc' = "backward"
    /\ UNCHANGED <<epochs, phase_log, finalized, train_steps, val_steps, grad>>
    /\ UNCHANGED <<mainVars, ckptVars, loopVars>>

\* loss.backward(): every parameter gets its gradient.
Backward ==
    /\ pc = "backward"
    /\ \E g \in GradOutcomes : grad' = [p \in Params |-> g[p]]
    /\ step_log' = Append(step_log, "backward")
    /\ pc' = "optimizer_step"
    /\ UNCHANGED <<epochs, callback_metrics, phase_log, finalized, train_steps,
                   val_steps, grad_norm_values, epoch_norms>>
    /\ UNCHANGED <<mainVars, ckptVars, loopVars>>

\* The optimizer applies the update from the gradients of this step.
OptimizerStep ==
    /\ pc = "optimizer_step"
    /\ global_step' = global_step + 1
    /\ batch_idx' = batch_idx + 1
    /\ step_log' = Append(step_log, "optimizer_step")
    /\ pc' = "batch_end"
    /\ UNCHANGED <<epochs, callback_metrics, phase_log, finalized, train_steps,
                   val_steps, current_epoch, val_idx, grad, grad_norm_values,
                   epoch_norms>>
    /\ UNCHANGED <<mainVars, ckptVars>>

\* Validation runs once per epoch, after the last training batch
\* (val_check_interval and check_val_every_n_epoch are left at 1).
ShouldCheckValEveryBatch(b) == b <= NumTrainBatches
ShouldCheckVal(b) == b = NumTrainBatches

NextBatch ==
    /\ pc = "batch_end"
    /\ ~ShouldCheckVal(batch_idx)
    /\ pc' = IF batch_idx < NumTrainBatches THEN "training_step"
                                            ELSE "on_train_epoch_end"
    /\ UNCHANGED <<epochs, callback_metrics, phase_log, finalized, train_steps,
                   val_steps>>
    /\ UNCHANGED <<mainVars, ckptVars, gradVars, loopVars>>

\* ---------------------------------------------------------- validation loop
ValidationStart ==
    /\ pc = "batch_end"
    /\ ShouldCheckVal(batch_idx)
    /\ pc' = "validation_step"
    /\ val_idx' = 0
    /\ phase_log' = Append(phase_log, [phase |-> "val", epoch |-> current_epoch])
    /\ UNCHANGED <<epochs, callback_metrics, finalized, train_steps, val_steps,
                   current_epoch, batch_idx, global_step>>
    /\ UNCHANGED <<mainVars, ckptVars, gradVars>>

\* validation_step, lines 73-109: forward pass, loss, the val_* metrics; no
\* backward pass and no optimizer step.
ValidationStep ==
    /\ pc = "validation_step"
    /\ val_idx < NumValBatches
    /\ val_idx' = val_idx + 1
    /\ val_steps' = val_steps + 1
    /\ UNCHANGED <<pc, epochs, callback_metrics, phase_log, finalized,
                   train_steps, current_epoch, batch_idx, global_step>>
    /\ UNCHANGED <<mainVars, ckptVars, gradVars>>

\* The validation loop ends: the epoch mean of val_map (logged with
\* on_epoch=True at line 101) reaches callback_metrics.
ValidationEnd ==
    /\ pc = "validation_step"
    /\ val_idx = NumValBatches
    /\ \E v \in Vals : callback_metrics' = Log(callback_metrics, "val_map", v)
    /\ pc' = IF batch_idx < NumTrainBatches THEN "training_step"
                                            ELSE "on_train_epoch_end"
    /\ UNCHANGED <<epochs, phase_log, finalized, train_steps, val_steps>>
    /\ UNCHANGED <<mainVars, ckptVars, gradVars, loopVars>>

\* ------------------------------------------------------- epoch finalization

\* Line 126: the list after the epoch's average was logged.
LogKept(values) == values
LogCleared(values) == <<>>

\* on_train_epoch_end, lines 121-126.
OnTrainEpochEnd ==
    /\ pc = "on_train_epoch_end"
    /\ IF grad_norm_values # <<>>
       THEN /\ callback_metrics' =
                   Log(callback_metrics, "avg_grad_norm", Mean(grad_norm_values))
            /\ grad_norm_values' = LogCleared(grad_norm_values)
       ELSE UNCHANGED <<callback_metrics, grad_norm_values>>
    /\ finalized' = Append(finalized, MetricsRow(callback_metrics'))
    /\ phase_log' = Append(phase_log, [phase |-> "finalize", epoch |-> current_epoch])
    /\ pc' = "checkpoint_best"
    /\ UNCHANGED <<epochs, train_steps, val_steps, grad, epoch_norms, step_log>>
    /\ UNCHANGED <<mainVars, ckptVars, loopVars>>

\* ------------------------------------------------ the checkpoint callbacks

\* A checkpoint path: <<"best", 0, v>> for ..._best, <<"epoch", e, v>> for
\* ..._epoch{epoch}; v > 0 is the version suffix -v<v>. <<>> is no path.
NoPath == <<>>

PathExists(files, p) == \E f \in files : f.path = p

\* ModelCheckpoint's file name: the formatted name, with the first version
\* suffix that names no existing file unless it is the file about to be
\* replaced.
ResolvePath(name, tag, files, del_filepath) ==
    LET cand(v) == <<name, tag, v>>
        taken(v) == PathExists(files, cand(v)) /\ cand(v) # del_filepath
        ver == CHOOSE v \in 0..Cardinality(files) :
                   ~taken(v) /\ \A w \in 0..(v - 1) : taken(w)
    IN  cand(ver)

\* trainer.save_checkpoint(filepath): the file holds the state of `epoch`.
SaveCheckpoint(files, p, epoch) ==
    {f \in files : f.path # p} \cup {[path |-> p, epoch |-> epoch]}

RemoveCheckpoint(files, p) == {f \in files : f.path # p}

\* The callback does nothing when it already saved at this global step.
ShouldSkipSaving(last_step) == last_step = global_step

\* mode="max" (line 185): the comparison is torch.gt.
MonitorOpGe(current, kth) == current >= kth
MonitorOp(current, kth) == current > kth

\* The worst of the kept models (mode="max": the lowest score).
KthBest(bkm) == CHOOSE m \in bkm : \A o \in bkm : m.score <= o.score

\* check_monitor_top_k with save_top_k=1 (line 188).
CheckMonitorTopK(bkm, current) ==
    IF Cardinality(bkm) < SaveTopK THEN TRUE
    ELSE MonitorOp(current, KthBest(bkm).score)

\* checkpoint_callback (lines 183-189) at the end of the training epoch.
CheckpointBest ==
    /\ pc = "checkpoint_best"
    /\ LET current == Get(callback_metrics, "val_map", 0)
       IN  IF ~ShouldSkipSaving(best_last_step) /\ CheckMonitorTopK(best_k_models, current)
           THEN LET full == Cardinality(best_k_models) = SaveTopK /\ SaveTopK > 0
                    del_filepath == IF full THEN KthBest(best_k_models).path ELSE NoPath
                    kept == {m \in best_k_models : m.path # del_filepath}
                    filepath == ResolvePath("best", 0, ckpt_files, del_filepath)
                    saved == SaveCheckpoint(ckpt_files, filepath, current_epoch)
                IN  /\ best_k_models' = kept \cup {[path |-> filepath, score |-> current]}
                    /\ ckpt_files' = IF del_filepath # NoPath /\ del_filepath # filepath
                                     THEN RemoveCheckpoint(saved, del_filepath)
                                     ELSE saved
                    /\ best_last_step' = global_step
                    /\ requests' = Append(requests,
                                          [kind |-> "best", epoch |-> current_epoch])
           ELSE UNCHANGED <<best_k_models, ckpt_files, best_last_step, requests>>
    /\ pc' = "checkpoint_epoch"
    /\ UNCHANGED <<epochs, callback_metrics, phase_log, finalized, train_steps,
                   val_steps, epoch_last_path, epoch_last_step>>
    /\ UNCHANGED <<mainVars, gradVars, loopVars>>

\* checkpoint_callback_epoch (lines 190-194) at the end of the training
\* epoch: no monitor, every_n_epochs=1, save_top_k at its default of 1 (the
\* previous periodic file is removed). The epoch is then complete.
CheckpointEpoch ==
    /\ pc = "checkpoint_epoch"
    /\ IF /\ ~ShouldSkipSaving(epoch_last_step)
          /\ EveryNEpochs >= 1
          /\ (current_epoch + 1) % EveryNEpochs = 0
       THEN LET filepath == ResolvePath("epoch", current_epoch, ckpt_files,
                                        epoch_last_path)
                previous == epoch_last_path
                saved == SaveCheckpoint(ckpt_files, filepath, current_epoch)
            IN  /\ epoch_last_path' = filepath
                /\ ckpt_files' = IF previous # NoPath /\ previous # filepath
                                 THEN RemoveCheckpoint(saved, previous)
                                 ELSE saved
                /\ epoch_last_step' = global_step
                /\ requests' = Append(requests,
                                      [kind |-> "periodic", epoch |-> current_epoch])
       ELSE UNCHANGED <<epoch_last_path, ckpt_files, epoch_last_step, requests>>
    /\ current_epoch' = current_epoch + 1
    /\ pc' = "fit_loop"
    /\ UNCHANGED <<epochs, callback_metrics, phase_log, finalized, train_steps,
                   val_steps, best_k_models, best_last_step, batch_idx, val_idx,
                   global_step>>
    /\ UNCHANGED <<mainVars, gradVars>>

\* ------------------------------------------------------------ main, part 2

\* Lines 219-223: the elapsed training time is computed, logged and printed.
ReportTime ==
    /\ pc = "report"
    /\ time_reported' = time_reported + 1
    /\ pc' = "open_rows"
    /\ UNCHANGED <<epochs, callback_metrics, phase_log, finalized, train_steps,
                   val_steps, csv_file, row_epoch>>
    /\ UNCHANGED <<ckptVars, gradVars, loopVars>>

\* Line 226: the metrics table is reopened with mode='a'.
OpenRows ==
    /\ pc = "open_rows"
    /\ csv_file' = Open(csv_file, RowOpenMode)
    /\ row_epoch' = 0
    /\ pc' = "write_rows"
    /\ UNCHANGED <<epochs, callback_metrics, phase_log, finalized, train_steps,
                   val_steps, time_reported>>
    /\ UNCHANGED <<ckptVars, gradVars, loopVars>>

\* Lines 229-250, one iteration of `for epoch in range(epochs)`: the row is
\* built from trainer.callback_metrics as it is after training.
WriteRow ==
    /\ pc = "write_rows"
    /\ row_epoch < epochs
    /\ csv_file' = Append(csv_file, [kind    |-> "row",
                                     epoch   |-> row_epoch,
                                     metrics |-> MetricsRow(callback_metrics)])
    /\ row_epoch' = row_epoch + 1
    /\ UNCHANGED <<pc, epochs, callback_metrics, phase_log, finalized,
                   train_steps, val_steps, time_reported>>
    /\ UNCHANGED <<ckptVars, gradVars, loopVars>>

\* The loop is exhausted, the file is closed and main returns.
Finish ==
    /\ pc = "write_rows"
    /\ row_epoch >= epochs
    /\ pc' = "done"
    /\ UNCHANGED <<epochs, callback_metrics, phase_log, finalized, train_steps,
                   val_steps>>
    /\ UNCHANGED <<mainVars, ckptVars, gradVars, loopVars>>

Next ==
    \/ WriteHeader
    \/ CreateTrainer
    \/ TrainerMisconfigured
    \/ FitStart
    \/ SanityValStep
    \/ SanityEnd
    \/ EpochStart
    \/ FitLoopEnd
    \/ TrainingStep
    \/ ZeroGrad
    \/ OnBeforeBackward
    \/ Backward
    \/ OptimizerStep
    \/ NextBatch
    \/ ValidationStart
    \/ ValidationStep
    \/ ValidationEnd
    \/ OnTrainEpochEnd
    \/ CheckpointBest
    \/ CheckpointEpoch
    \/ ReportTime
    \/ OpenRows
    \/ WriteRow
    \/ Finish

Spec == Init /\ [][Next]_vars

\* Every step of main and of the fit loop is taken by the single thread of
\* control as soon as it is enabled.
FairSpec == Spec /\ WF_vars(Next)

\* ================================================================= claims

\* The phase train/val/finalize of epoch e at position i (from 1) of the
\* order train(0), val(0), finalize(0), train(1), ...
ExpectedPhase(i) ==
    [phase |-> <<"train", "val", "finalize">>[((i - 1) % 3) + 1],
     epoch |-> (i - 1) \div 3]

\* C1 as stated: with N >= 1 the phases entered are train(e), val(e),
\* finalize(e) for e = 0..N-1 in this order starting with train(0), no
\* validation batch is processed before the first training batch, and
\* validation is entered only when every training batch of the epoch is
\* consumed.
C1_PhasesStartWithTraining ==
    epochs >= 1 =>
        /\ \A i \in DOMAIN phase_log :
               phase_log[i] = ExpectedPhase(i) /\ phase_log[i].epoch < epochs
        /\ (val_steps > 0 => train_steps > 0)
        /\ (pc = "validation_step" => batch_idx = NumTrainBatches)

\* C1 amended: with N >= 1 the run first makes a sanity check that processes
\* min(2, number of validation batches) validation batches, whose results
\* are dropped and checkpoint nothing; after it the phases entered are
\* train(e), val(e), finalize(e) for e = 0..N-1 in this order, and validation
\* of epoch e is entered only when every training batch of e is consumed.
C1_PhasesAfterSanityCheck ==
    epochs >= 1 =>
        /\ \A i \in DOMAIN phase_log :
               /\ i = 1 => phase_log[i] = [phase |-> "sanity", epoch |-> 0]
               /\ i > 1 => /\ phase_log[i] = ExpectedPhase(i - 1)
                           /\ phase_log[i].epoch < epochs
        /\ (train_steps = 0 =>
               /\ val_steps <= Min(2, NumValBatches)
               /\ callback_metrics = NoMetrics
               /\ ckpt_files = {}
               /\ requests = <<>>)
        /\ (pc = "fit_loop" /\ current_epoch = 0 => val_steps = Min(2, NumValBatches))
        /\ (pc = "validation_step" => batch_idx = NumTrainBatches)

C1_Witness ==
    /\ pc = "done"
    /\ epochs >= 2
    /\ Len(phase_log) = 1 + 3 * epochs
    /\ phase_log[Len(phase_log)] = [phase |-> "finalize", epoch |-> epochs - 1]

\* C2 as stated: in every training step the gradient norm is recorded after
\* the backward pass of that step and before the optimizer step, so that at
\* the optimizer step the last recorded value is the norm of the gradients
\* the optimizer consumes.
C2_NormRecordedAfterBackward ==
    /\ \A i \in DOMAIN step_log :
           /\ step_log[i] = "record" =>
                  \E j \in 1..(i - 1) : step_log[j] = "backward"
           /\ step_log[i] = "optimizer_step" =>
                  \E j \in 1..(i - 1) : step_log[j] = "record"
    /\ pc = "optimizer_step" =>
           /\ grad_norm_values # <<>>
           /\ grad_norm_values[Len(grad_norm_values)] = TotalNorm(grad)

\* C3 as stated: after a run of N epochs the metrics table holds, after the
\* header, exactly one row per epoch 0..N-1 in increasing order, and the row
\* of epoch e holds the metric values finalized for epoch e.
C3_RowsHoldTheirEpochsValues ==
    pc = "done" /\ epochs >= 1 =>
        /\ Len(csv_file) = epochs + 1
        /\ \A e \in 0..(epochs - 1) :
               csv_file[e + 2] = [kind |-> "row", epoch |-> e,
                                  metrics |-> finalized[e + 1]]

\* The checkpoint callbacks of epoch e have both run.
CallbacksRan(e) == e < current_epoch
\* checkpoint_callback has run for epoch e.
BestCallbackRan(e) ==
    CallbacksRan(e) \/ (e = current_epoch /\ pc = "checkpoint_epoch")
Requested(kind, e) ==
    {k \in DOMAIN requests : requests[k] = [kind |-> kind, epoch |-> e]}
ValMapOf(e) == finalized[e + 1].val_map
BestEpochs == {e \in 0..(Len(finalized) - 1) : Requested("best", e) # {}}
ValMaps == [i \in DOMAIN finalized |-> finalized[i].val_map]

\* C4: a best-checkpoint request is issued at epoch i if and only if val_map
\* at i is strictly greater than val_map at every epoch before i (an equal
\* value does not trigger one); for 0.1, 0.5, 0.3, 0.9, 0.9 the requests are
\* at epochs 0, 1 and 3.
C4_BestIffStrictlyGreater ==
    /\ \A e \in 0..(Len(finalized) - 1) :
           BestCallbackRan(e) =>
               ((Requested("best", e) # {}) <=>
                    (\A j \in 0..(e - 1) : ValMapOf(e) > ValMapOf(j)))
    /\ (ValMaps = <<1, 5, 3, 9, 9>> /\ BestCallbackRan(4)) => BestEpochs = {0, 1, 3}

C4_Witness ==
    /\ pc = "done"
    /\ ValMaps = <<1, 5, 3, 9, 9>>
    /\ BestEpochs = {0, 1, 3}

BestFiles == {f \in ckpt_files : f.path[1] = "best"}
\* The earliest epoch with the highest val_map among the epochs 0..n-1.
EarliestBest(n) ==
    CHOOSE e \in 0..(n - 1) :
        /\ \A j \in 0..(n - 1) : ValMapOf(j) <= ValMapOf(e)
        /\ \A j \in 0..(e - 1) : ValMapOf(j) < ValMapOf(e)
\* Epochs for which checkpoint_callback has run.
BestCallbackRuns == IF pc = "checkpoint_epoch" THEN current_epoch + 1 ELSE current_epoch

\* C5: at any time at most one best checkpoint file exists, and once an
\* epoch has been checkpointed the file that exists holds the epoch with the
\* highest val_map so far, the earliest one on ties.
C5_OneBestCheckpoint ==
    /\ Cardinality({f.path : f \in BestFiles}) <= 1
    /\ Cardinality(BestFiles) <= 1
    /\ BestCallbackRuns = 0 => BestFiles = {}
    /\ BestCallbackRuns > 0 =>
           \E f \in BestFiles : f.epoch = EarliestBest(BestCallbackRuns)

C5_Witness ==
    /\ current_epoch >= 3
    /\ Cardinality(Requested("best", 0)) + Cardinality(Requested("best", 1)) = 2
    /\ ValMapOf(2) = ValMapOf(1)
    /\ \E f \in BestFiles : f.epoch = 1

\* C6: every epoch yields exactly one periodic checkpoint request, whatever
\* val_map is and whether or not a best checkpoint is requested in the same
\* epoch; an epoch has at most one best request, so at most two in all.
C6_OnePeriodicPerEpoch ==
    /\ \A e \in 0..(Len(finalized) - 1) :
           /\ CallbacksRan(e) => Cardinality(Requested("periodic", e)) = 1
           /\ ~CallbacksRan(e) => Requested("periodic", e) = {}
           /\ Cardinality(Requested("best", e)) <= 1
    /\ \A k \in DOMAIN requests :
           /\ requests[k].kind \in {"best", "periodic"}
           /\ requests[k].epoch \in 0..(Len(finalized) - 1)

C6_Witness ==
    /\ pc = "done"
    /\ epochs >= 2
    /\ \E e \in 0..(epochs - 1) :
           Requested("best", e) # {} /\ Requested("periodic", e) # {}
    /\ \E e \in 0..(epochs - 1) :
           Requested("best", e) = {} /\ Cardinality(Requested("periodic", e)) = 1

\* C7: the metrics table only grows by suffix once the header is written,
\* and the header is its first line and occurs once.
C7_AppendOnly ==
    /\ [](csv_file # <<>> =>
              /\ csv_file[1] = Header
              /\ \A i \in 2..Len(csv_file) : csv_file[i].kind = "row")
    /\ [][csv_file # <<>> =>
              /\ Len(csv_file') >= Len(csv_file)
              /\ SubSeq(csv_file', 1, Len(csv_file)) = csv_file]_vars

C7_Witness ==
    /\ pc = "done"
    /\ Len(csv_file) >= 3
    /\ csv_file[1] = Header
    /\ csv_file[3].kind = "row"

\* C8 as stated: with a target epoch count below 1 the run is rejected at
\* startup: it does not complete normally, processes no training or
\* validation batch and produces no checkpoint and no metrics row.
C8_NonPositiveEpochsRejected ==
    epochs < 1 =>
        /\ pc \notin {"report", "open_rows", "write_rows", "done"}
        /\ train_steps = 0
        /\ val_steps = 0
        /\ ckpt_files = {}
        /\ requests = <<>>
        /\ \A i \in DOMAIN csv_file : csv_file[i].kind # "row"

\* trainer.fit has returned and the elapsed time was reported.
OrchestratorDone == pc \in {"open_rows", "write_rows", "done"}

\* C9: with N >= 1 the run eventually ends; N epochs and no more are
\* finalized, and the elapsed time is reported once, on leaving the fit loop
\* after the N-th epoch.
C9_TerminatesAfterNEpochs ==
    /\ (epochs >= 1 => <>(pc = "done"))
    /\ [](epochs >= 1 =>
              /\ current_epoch <= epochs
              /\ Len(finalized) <= epochs
              /\ time_reported = (IF OrchestratorDone THEN 1 ELSE 0)
              /\ (pc \in {"report", "open_rows", "write_rows", "done"} =>
                      /\ Len(finalized) = epochs
                      /\ current_epoch = epochs))

C9_Witness ==
    /\ pc = "done"
    /\ epochs >= 2
    /\ time_reported = 1
    /\ Len(finalized) = epochs

====
